---- MODULE Spec2Model ----
(***************************************************************************)
(* Countdown timer served over HTTP from a Pico W access point             *)
(* (src/pcw_timer.py): the timer state machine, the access-point           *)
(* supervisor and the single-threaded event loop with its per-connection   *)
(* request handling.                                                       *)
(*                                                                         *)
(* Time: computation takes no time; the clock advances only inside the     *)
(* blocking calls (accept, recv, sleep).  `now` is the platform tick       *)
(* counter (time.ticks_ms(), modulo TICKS_PERIOD); `elapsed` is the true   *)
(* number of milliseconds since start, kept only to state properties.      *)
(* heartbeat() (lines 26-35) reads and writes only the onboard LED and     *)
(* _last_hb, which nothing else reads; it is left out of the loop.         *)
(***************************************************************************)
EXTENDS Integers, Sequences, FiniteSets, TLC

\* ------------------------------------------------------------------ config
MAX_SECONDS == 3600
CLIENT_TIMEOUT_S == 2
AP_LOG_EVERY_MS == 5000
AP_ENSURE_EVERY_MS == 5000
ACCEPT_TIMEOUT_MS == 200
AP_SETTLE_MS == 200
AP_POLL_MS == 100
AP_POLLS == 50
CLIENT_TIMEOUT_MS == CLIENT_TIMEOUT_S * 1000

\* time.ticks_ms() counts modulo this period (MicroPython small-int range)
TICKS_PERIOD == 2 ^ 30

\* Python's None for deadline_ms and for an absent header; ticks are >= 0
None == -1

\* ------------------------------------------------------------------ bounds
\* the event loop is explored for MaxQuanta accept-timeouts' worth of time
MaxQuanta == 24
\* the timer API is explored for this many clock advances
MaxAdvances == 4

\* the access-point supervisor alone is explored for MaxApQuanta of them
MaxApQuanta == 53

\* request processing is explored for MaxHttpQuanta of them
MaxHttpQuanta == 15

MaxElapsed == MaxQuanta * ACCEPT_TIMEOUT_MS
MaxHttpElapsed == MaxHttpQuanta * ACCEPT_TIMEOUT_MS
MaxApElapsed == MaxApQuanta * ACCEPT_TIMEOUT_MS

\* tick-counter values at start-up: fresh boot, and shortly before the wrap
WrapTick == TICKS_PERIOD - 800
StartTicks == {0, WrapTick}

\* --------------------------------------------------------- clock adapter
ticks_add(t, delta) == (t + delta) % TICKS_PERIOD

\* variant: the difference taken without the modulus
ticks_diff_naive(a, b) == a - b

ticks_diff(a, b) ==
    ((a - b + TICKS_PERIOD \div 2) % TICKS_PERIOD) - TICKS_PERIOD \div 2

\* variant: the quotient rounded down
ceil_div_1000_floor(diff) == diff \div 1000

\* math.ceil(diff / 1000) for diff > 0
ceil_div_1000(diff) == (diff + 999) \div 1000

\* ------------------------------------------------------- timer functions
\* variant: the upper clamp is missing
set_timer_unclamped(seconds, n) ==
    LET s1 == IF seconds < 1 THEN 1 ELSE seconds
    IN  [deadline_ms |-> ticks_add(n, s1 * 1000), running |-> TRUE, led |-> 0]

\* variant: the indicator is written 1 instead of 0
set_timer_lit(seconds, n) ==
    LET s1 == IF seconds < 1 THEN 1 ELSE seconds
        s2 == IF s1 > MAX_SECONDS THEN MAX_SECONDS ELSE s1
    IN  [deadline_ms |-> ticks_add(n, s2 * 1000), running |-> TRUE, led |-> 1]

\* set_timer: the new (deadline_ms, running, led) for a call at tick n
set_timer(seconds, n) ==
    LET s1 == IF seconds < 1 THEN 1 ELSE seconds
        s2 == IF s1 > MAX_SECONDS THEN MAX_SECONDS ELSE s1
    IN  [deadline_ms |-> ticks_add(n, s2 * 1000), running |-> TRUE, led |-> 0]

\* variant: the flag is written with the wrong value
stop_timer_on == TRUE

\* stop_timer: the new value of running
stop_timer == FALSE

\* remaining_seconds() evaluated on timer state (run, dl) at tick n
remaining_seconds(run, dl, n) ==
    IF (~run) \/ (dl = None) THEN 0
    ELSE LET diff == ticks_diff(dl, n)
         IN  IF diff <= 0 THEN 0 ELSE ceil_div_1000(diff)

\* variant: the expiry check does not look at running
update_timer_any(run, dl, ld, n) ==
    IF dl # None /\ ticks_diff(dl, n) <= 0
    THEN [running |-> FALSE, led |-> 1]
    ELSE [running |-> run, led |-> ld]

\* update_timer: the new (running, led) for a call at tick n
update_timer(run, dl, ld, n) ==
    IF run /\ dl # None /\ ticks_diff(dl, n) <= 0
    THEN [running |-> FALSE, led |-> 1]
    ELSE [running |-> run, led |-> ld]

\* ------------------------------------------------------------ text helpers
\* Text is a sequence of atoms: a request line is built from words, the
\* separators " " and "?" and the byte "xFF" (not valid UTF-8); a body and a
\* header value are built from single characters.
InvalidBytes == {"xFF"}

\* bytes.decode(): fails on a byte sequence that is not valid UTF-8
decode_ok(bs) == \A i \in 1..Len(bs) : bs[i] \notin InvalidBytes

contains(s, sep) == \E i \in 1..Len(s) : s[i] = sep

first_index(s, sep) ==
    CHOOSE i \in 1..Len(s) : s[i] = sep /\ \A j \in 1..(i - 1) : s[j] # sep

\* s.split(sep): every piece between separators, empty pieces included
RECURSIVE split(_, _)
split(s, sep) ==
    IF ~contains(s, sep) THEN <<s>>
    ELSE LET i == first_index(s, sep)
         IN  <<SubSeq(s, 1, i - 1)>> \o split(SubSeq(s, i + 1, Len(s)), sep)

\* s.split(sep, 1)[0] and s.split(sep, 1)[1]
split1_head(s, sep) ==
    IF contains(s, sep) THEN SubSeq(s, 1, first_index(s, sep) - 1) ELSE s

split1_tail(s, sep) == SubSeq(s, first_index(s, sep) + 1, Len(s))

DigitChars == {"0", "1", "2", "3", "4", "5", "6", "7", "8", "9"}

digit_val(c) ==
    CASE c = "0" -> 0 [] c = "1" -> 1 [] c = "2" -> 2 [] c = "3" -> 3
      [] c = "4" -> 4 [] c = "5" -> 5 [] c = "6" -> 6 [] c = "7" -> 7
      [] c = "8" -> 8 [] c = "9" -> 9

RECURSIVE strip(_)
strip(s) ==
    IF s = <<>> THEN s
    ELSE IF Head(s) = " " THEN strip(Tail(s))
    ELSE IF s[Len(s)] = " " THEN strip(SubSeq(s, 1, Len(s) - 1))
    ELSE s

RECURSIVE digits_val(_, _)
digits_val(s, acc) ==
    IF s = <<>> THEN acc ELSE digits_val(Tail(s), acc * 10 + digit_val(Head(s)))

\* int(text): surrounding blanks stripped, an optional sign, then one or
\* more digits; anything else raises (ok = FALSE)
py_int(text) ==
    LET t    == strip(text)
        neg  == t # <<>> /\ Head(t) = "-"
        sgn  == t # <<>> /\ Head(t) \in {"-", "+"}
        ds   == IF sgn THEN Tail(t) ELSE t
        ok   == ds # <<>> /\ \A i \in 1..Len(ds) : ds[i] \in DigitChars
    IN  [ok  |-> ok,
         val |-> IF ~ok THEN 0
                 ELSE IF neg THEN 0 - digits_val(ds, 0) ELSE digits_val(ds, 0)]

\* ------------------------------------------------------ request processing
\* header_value(req, b"Content-Length") is <<>> when the header is absent
\* and <<v>> when it is present with value v; clen as lines 347-351 compute it
content_length(hdr) ==
    IF hdr = <<>> \/ hdr[1] = <<>> THEN 0
    ELSE IF py_int(hdr[1]).ok THEN py_int(hdr[1]).val ELSE 0

\* the dictionary parse_form builds from the pieces of s.split("&")
RECURSIVE form_pairs(_, _)
form_pairs(parts, kv) ==
    IF parts = <<>> THEN kv
    ELSE LET p == Head(parts)
         IN  form_pairs(Tail(parts),
                        IF contains(p, "=")
                        THEN (split1_head(p, "=") :> split1_tail(p, "=")) @@ kv
                        ELSE kv)

parse_form(body_bytes) ==
    IF decode_ok(body_bytes) THEN form_pairs(split(body_bytes, "&"), <<>>)
    ELSE <<>>

\* sec as lines 365-369 compute it: int(kv.get("sec", "1")), 1 when int raises
KeySec == <<"s", "e", "c">>

\* variant: the default of the sec field is 0
form_sec_zero(body_bytes) ==
    LET kv == parse_form(body_bytes)
        v  == IF KeySec \in DOMAIN kv THEN kv[KeySec] ELSE <<"0">>
    IN  IF py_int(v).ok THEN py_int(v).val ELSE 0

form_sec(body_bytes) ==
    LET kv == parse_form(body_bytes)
        v  == IF KeySec \in DOMAIN kv THEN kv[KeySec] ELSE <<"1">>
    IN  IF py_int(v).ok THEN py_int(v).val ELSE 1

\* variant: the query string is not cut off the path
parse_request_line_query(line) ==
    LET parts == split(line, " ")
        ok    == decode_ok(line) /\ Len(parts) = 3
    IN  [ok        |-> ok,
         method    |-> IF ok THEN parts[1] ELSE <<>>,
         path_only |-> IF ok THEN parts[2] ELSE <<>>]

\* lines 320-324: the request line decoded and split; ok = FALSE when the
\* try block raises (undecodable bytes, or not exactly three pieces)
parse_request_line(line) ==
    LET parts == split(line, " ")
        ok    == decode_ok(line) /\ Len(parts) = 3
    IN  [ok        |-> ok,
         method    |-> IF ok THEN parts[1] ELSE <<>>,
         path_only |-> IF ok THEN split1_head(parts[2], "?") ELSE <<>>]

\* lines 331-383: the branch of the route chain taken
route(method, path_only) ==
    IF method = <<"GET">> /\ path_only = <<"/">> THEN "index"
    ELSE IF method = <<"GET">> /\ path_only = <<"/status">> THEN "status"
    ELSE IF method = <<"POST">> /\ path_only = <<"/set">> THEN "set"
    ELSE IF method = <<"POST">> /\ path_only = <<"/stop">> THEN "stop"
    ELSE IF method = <<"POST">> /\ path_only = <<"/ledoff">> THEN "ledoff"
    ELSE "notfound"

\* variant: the final else branch sends nothing
route_status_silent(r) == IF r = "notfound" THEN 0 ELSE 200

\* the status code of the response each branch builds
route_status(r) == IF r = "notfound" THEN 404 ELSE 200

\* the branch a first chunk with this request line leads to
line_route(line) ==
    LET p == parse_request_line(line)
    IN  IF p.ok THEN route(p.method, p.path_only) ELSE "badrequest"

\* ------------------------------------------------------------------ inputs
Line3(m, p) == <<m, " ", p, " ", "HTTP/1.1">>

\* first lines the simulated clients send
Lines ==
    { Line3("GET", "/"), Line3("GET", "/status"), Line3("POST", "/set"),
      Line3("POST", "/stop"), Line3("POST", "/ledoff"),
      Line3("GET", "/nope"), Line3("GET", "/set"), Line3("POST", "/"),
      Line3("get", "/"),
      <<"GET", " ", "/status", "?", "t=1", " ", "HTTP/1.1">>,
      <<"POST", " ", "/set", "?", "x", "?", "y", " ", "HTTP/1.1">>,
      <<"garbage">>,
      <<"GET", " ", "/">>,
      <<"GET", " ", " ", "/", " ", "HTTP/1.1">>,
      <<"GET", " ", "/", " ", "HTTP/1.1", " ", "x">>,
      <<"GET", " ", "/", "xFF", " ", "HTTP/1.1">> }

NoLine == <<>>

\* what the first chunk of a POST /set carries: its Content-Length header
\* (<<>> absent, else <<value>>) and the part of the body that came with it
SetChunk(h, b) == [hdr |-> h, body |-> b]

SetChunks ==
    { SetChunk(<<>>, <<>>),
      SetChunk(<< <<"5">> >>, <<"s", "e", "c", "=", "2">>),
      SetChunk(<< <<"5">> >>, <<"s", "e", "c", "=">>),
      SetChunk(<< <<"5">> >>, <<"s", "e", "c">>),
      SetChunk(<< <<"x">> >>, <<"s", "e", "c", "=", "2">>),
      SetChunk(<< <<"-", "1">> >>, <<"s", "e", "c", "=", "0">>),
      SetChunk(<<>>, <<"s", "e", "c", "=", "1", "&", "s", "e", "c", "=", "2">>),
      SetChunk(<<>>, <<"s", "e", "c", "=", "2", "xFF">>) }

\* the clients of the timer-centred exploration: one line per route
BasicLines ==
    { Line3("GET", "/"), Line3("GET", "/status"), Line3("POST", "/set"),
      Line3("POST", "/stop"), Line3("POST", "/ledoff"), Line3("GET", "/nope"),
      <<"garbage">> }

BasicChunks ==
    { SetChunk(<<>>, <<>>),
      SetChunk(<< <<"5">> >>, <<"s", "e", "c", "=", "2">>),
      SetChunk(<< <<"5">> >>, <<"s", "e", "c", "=">>) }

Scenario(far, ls, cs) == [horizon |-> far, lines |-> ls, chunks |-> cs]

\* what a later recv of the body may return
MoreChunks == { <<"1">>, <<"x">> }

\* how long a recv that returns data (or fails early) has waited
RecvWaits == {0, 1000}

\* how long an accept that returns a connection has waited
AcceptWaits == {0, ACCEPT_TIMEOUT_MS \div 2}

\* number of 0.1 s polls start_ap makes before the access point is active
ApPolls == {0, AP_POLLS}

\* arguments of set_timer in the timer API exploration
SecondsInputs == {-5, 0, 1, 2, 3599, 3600, 3601, 9999}

\* clock advances in the timer API exploration
ClockSteps == {1, 999, 1000, 3598000}

\* ------------------------------------------------------------------- state
VARIABLES
    now,              \* time.ticks_ms()
    elapsed,          \* true milliseconds since start (not wrapped)
    deadline_ms,      \* line 55
    running,          \* line 56
    led,              \* led.value(), the completion indicator
    arg,              \* argument of the latest set_timer call, None if none
    setAt,            \* value of elapsed at the latest set_timer call
    _last_ap_ensure,
    _last_ap_log,
    apActive,         \* ap.active()
    apStarts,         \* start_ap calls made by the latest ensure_ap (0 or 1)
    pc,               \* position of the event loop
    openSockets,      \* accepted client sockets not yet closed
    req,              \* request line of the first chunk, NoLine if none
    hdr,              \* Content-Length header of the first chunk
    body,             \* body collected so far
    resp,             \* status of the response being sent, 0 if none
    sent,             \* status of the response the client received, 0 if none
    report,           \* <<running, remaining, led>> of a /status body, <<>> if none
    connStart,        \* value of elapsed when accept returned, None if idle
    faults,           \* faults raised since the top of this iteration
    advances,         \* clock advances made through the timer API
    scenario          \* what this behaviour explores: [horizon, lines, chunks]

timerVars == <<deadline_ms, running, led, arg, setAt>>
clockVars == <<now, elapsed>>
apVars    == <<_last_ap_ensure, _last_ap_log, apActive, apStarts>>
connVars  == <<openSockets, req, hdr, body, resp, sent, report, connStart, faults>>
vars == <<now, elapsed, deadline_ms, running, led, arg, setAt,
          _last_ap_ensure, _last_ap_log, apActive, apStarts, pc, openSockets,
          req, hdr, body, resp, sent, report, connStart, faults, advances,
          scenario>>

\* the state when the main loop is entered: lines 26-56, 91-93, 129, 277-282
InitAt(t0, active, where, sc) ==
    /\ now = ticks_add(t0, AP_SETTLE_MS)
    /\ scenario = sc
    /\ elapsed = 0
    /\ deadline_ms = None
    /\ running = FALSE
    /\ led = 0
    /\ arg = None
    /\ setAt = None
    /\ _last_ap_ensure = t0
    /\ _last_ap_log = t0
    /\ apActive = active
    /\ apStarts = 0
    /\ pc = where
    /\ openSockets = 0
    /\ req = NoLine
    /\ hdr = <<>>
    /\ body = <<>>
    /\ resp = 0
    /\ sent = 0
    /\ report = <<>>
    /\ connStart = None
    /\ faults = {}
    /\ advances = 0

\* the event loop with clients, the access point staying up
Init == InitAt(WrapTick, TRUE, "loop", Scenario(MaxElapsed, BasicLines, BasicChunks))

\* ------------------------------------------------- access-point supervisor
\* start_ap (lines 95-109) when ap.active() first answers true at poll k
\* (k = AP_POLLS: never): how long the call sleeps, and ap.active() after it
start_ap(k) == [dur |-> AP_SETTLE_MS + k * AP_POLL_MS, active |-> k < AP_POLLS]

\* ensure_ap, line 114: the check interval has elapsed
ensure_due(n, last) == ~(ticks_diff(n, last) < AP_ENSURE_EVERY_MS)

\* variant: the restart does not wait for the interval
ensure_restarts_always(n, last, active) == ~active

\* ensure_ap, line 118: start_ap is called
ensure_restarts(n, last, active) == ensure_due(n, last) /\ ~active

\* log_ap, line 125
log_due(n, last) == ticks_diff(n, last) >= AP_LOG_EVERY_MS

\* where control goes when the driver raises inside start_ap: neither
\* start_ap, ensure_ap nor the loop body around line 292 has a handler
on_start_ap_error == "crashed"

\* ------------------------------------------------------------ control flow
\* lines 298-303: an OSError from accept is ignored or logged, then continue
on_accept_error == "loop"
\* lines 385-389: an exception in the handling block leads to the 500 reply
on_handling_error == "send500"
\* variant: the failure of the 500 reply is not swallowed
on_send500_error_raise == "crashed"
\* lines 390-391: an exception while sending the 500 reply is swallowed
on_send500_error == "loop"
\* lines 395-396: an exception from cl.close() is swallowed
on_close_error == "loop"

\* variant: the socket is never closed
close_socket_leak(n) == n

\* cl.close(): one open client socket fewer
close_socket(n) == n - 1

\* variant: the off-command also stops the timer
handle_running_ledoff(r, run) == IF r \in {"stop", "ledoff"} THEN FALSE ELSE run

\* variant: the stop command toggles running
handle_running_toggle(r, run) == IF r = "stop" THEN ~run ELSE run

\* what the routes do to the timer (lines 374-376; the others leave it)
handle_running(r, run) == IF r = "stop" THEN stop_timer ELSE run

\* what the routes do to the indicator (lines 378-380)
handle_led(r, ld) == IF r = "ledoff" THEN 0 ELSE ld

\* ----------------------------------------------------------------- actions
Advance(d) ==
    /\ elapsed + d <= scenario.horizon
    /\ now' = ticks_add(now, d)
    /\ elapsed' = elapsed + d

\* the finally clause (lines 392-396), reached from exit `to` of the block
Close(fs, to, closeRaises) ==
    /\ openSockets' = close_socket(openSockets)
    /\ faults' = IF closeRaises THEN fs \cup {"close"} ELSE fs
    /\ pc' = IF closeRaises THEN on_close_error ELSE to
    /\ req' = NoLine
    /\ hdr' = <<>>
    /\ body' = <<>>
    /\ resp' = 0
    /\ connStart' = None

\* top of an iteration (lines 290-293): update_timer, ensure_ap, log_ap
Iterate ==
    /\ pc = "loop"
    /\ LET t       == update_timer(running, deadline_ms, led, now)
           due     == ensure_due(now, _last_ap_ensure)
           restart == ensure_restarts(now, _last_ap_ensure, apActive)
       IN  /\ running' = t.running
           /\ led' = t.led
           /\ _last_ap_ensure' = IF due THEN now ELSE _last_ap_ensure
           /\ apStarts' = IF restart THEN 1 ELSE 0
           /\ \E k \in ApPolls : \E raises \in BOOLEAN :
                /\ (~restart) => (k = 0 /\ ~raises)
                /\ Advance(IF restart /\ ~raises THEN start_ap(k).dur ELSE 0)
                /\ apActive' = IF restart /\ ~raises THEN start_ap(k).active
                               ELSE apActive
                /\ pc' = IF restart /\ raises THEN on_start_ap_error ELSE "accept"
                /\ faults' = IF restart /\ raises THEN {"ap"} ELSE {}
                /\ _last_ap_log' = IF ~(restart /\ raises) /\ log_due(now', _last_ap_log)
                                   THEN now' ELSE _last_ap_log
    /\ sent' = 0
    /\ report' = <<>>
    /\ UNCHANGED <<deadline_ms, arg, setAt, openSockets, req, hdr, body, resp,
                   connStart, advances, scenario>>

\* line 297: accept times out after 0.2 s, the loop's idle tick
AcceptTimeout ==
    /\ pc = "accept"
    /\ Advance(ACCEPT_TIMEOUT_MS)
    /\ pc' = "loop"
    /\ UNCHANGED <<timerVars, apVars, connVars, advances, scenario>>

\* line 297: accept raises another OSError
AcceptError ==
    /\ pc = "accept"
    /\ pc' = on_accept_error
    /\ faults' = faults \cup {"accept"}
    /\ UNCHANGED <<timerVars, clockVars, apVars, openSockets, req, hdr, body,
                   resp, sent, report, connStart, advances, scenario>>

\* line 297: accept returns a client socket
AcceptConn ==
    /\ pc = "accept"
    /\ \E d \in AcceptWaits : Advance(d)
    /\ openSockets' = openSockets + 1
    /\ connStart' = elapsed'
    /\ pc' = "recv1"
    /\ UNCHANGED <<timerVars, apVars, req, hdr, body, resp, sent, report,
                   faults, advances, scenario>>

RecvOutcomes == {"data", "empty", "oserror", "timeout"}

\* how long a recv with this outcome blocks
recv_wait(o, d) == IF o = "timeout" THEN CLIENT_TIMEOUT_MS ELSE d

\* lines 320-383 up to the next socket call: the request line is parsed and
\* the route run; POST /set goes on to read its body
Dispatch(l, handlerRaises) ==
    LET r == line_route(l)
    IN  IF handlerRaises
        THEN /\ faults' = faults \cup {"handler"}
             /\ pc' = on_handling_error
             /\ UNCHANGED <<running, led, report, resp>>
        ELSE /\ running' = handle_running(r, running)
             /\ led' = handle_led(r, led)
             /\ report' = IF r = "status"
                          THEN <<running,
                                 remaining_seconds(running, deadline_ms, now'),
                                 led>>
                          ELSE <<>>
             /\ resp' = IF r = "badrequest" THEN 400
                        ELSE IF r = "set" THEN 0 ELSE route_status(r)
             /\ pc' = IF r = "set" THEN "body" ELSE "send"
             /\ UNCHANGED faults

\* variant: an empty first read is handled like a request
first_read_aborts_errors(o) == o \in {"oserror", "timeout"}

\* lines 311-317: the first recv ends the handling without a response
first_read_aborts(o) == o # "data"

\* lines 306-383: settimeout, the first recv with its two early exits, then
\* the request handling up to the next socket call
Recv1 ==
    /\ pc = "recv1"
    /\ \E o \in RecvOutcomes : \E d \in RecvWaits : \E flag \in BOOLEAN :
         /\ (o = "timeout") => (d = 0)
         /\ Advance(recv_wait(o, d))
         /\ IF ~first_read_aborts(o)
            THEN /\ \E l \in (IF o = "data" THEN scenario.lines ELSE {NoLine}) :
                    \E c \in scenario.chunks :
                      /\ (line_route(l) # "set") => (c = SetChunk(<<>>, <<>>))
                      /\ req' = l
                      /\ hdr' = c.hdr
                      /\ body' = c.body
                      /\ Dispatch(l, flag)
                 /\ UNCHANGED <<openSockets, connStart, sent>>
            ELSE /\ Close(IF o = "empty" THEN faults ELSE faults \cup {"recv"},
                          "loop", flag)
                 /\ UNCHANGED <<running, led, report, sent>>
    /\ UNCHANGED <<deadline_ms, arg, setAt, apVars, advances, scenario>>

\* lines 365-372: the body is parsed and the timer set at tick n
FinishSet(b, n, e) ==
    LET sec == form_sec(b)
        t   == set_timer(sec, n)
    IN  /\ deadline_ms' = t.deadline_ms
        /\ running' = t.running
        /\ led' = t.led
        /\ arg' = sec
        /\ setAt' = e
        /\ resp' = 200
        /\ pc' = "send"

\* lines 354-372: one turn of the body loop; when it ends, the timer is set
Body ==
    /\ pc = "body"
    /\ IF ~(Len(body) < content_length(hdr))
       THEN /\ FinishSet(body, now, elapsed)
            /\ UNCHANGED <<clockVars, body, faults>>
       ELSE \E o \in RecvOutcomes : \E d \in RecvWaits : \E c \in MoreChunks :
              /\ (o = "timeout") => (d = 0)
              /\ (o # "data") => (c = <<"1">>)
              /\ Advance(recv_wait(o, d))
              /\ IF o = "data"
                 THEN /\ body' = body \o c
                      /\ UNCHANGED <<timerVars, resp, pc, faults>>
                 ELSE /\ FinishSet(body, now', elapsed')
                      /\ faults' = IF o = "empty" THEN faults
                                   ELSE faults \cup {"body"}
                      /\ UNCHANGED body
    /\ UNCHANGED <<apVars, openSockets, req, hdr, sent, report, connStart,
                   advances, scenario>>

\* cl.send of the response built by the route (or the 400), then finally
Send ==
    /\ pc = "send"
    /\ \E sendRaises \in BOOLEAN : \E closeRaises \in BOOLEAN :
         IF sendRaises
         THEN /\ ~closeRaises
              /\ faults' = faults \cup {"send"}
              /\ pc' = on_handling_error
              /\ UNCHANGED <<openSockets, req, hdr, body, resp, sent, connStart>>
         ELSE /\ sent' = resp
              /\ Close(faults, "loop", closeRaises)
    /\ UNCHANGED <<timerVars, clockVars, apVars, report, advances, scenario>>

\* lines 385-396: the best-effort 500 reply, then finally
Send500 ==
    /\ pc = "send500"
    /\ \E sendRaises \in BOOLEAN : \E closeRaises \in BOOLEAN :
         /\ sent' = IF sendRaises THEN sent ELSE 500
         /\ Close(IF sendRaises THEN faults \cup {"send500"} ELSE faults,
                  IF sendRaises THEN on_send500_error ELSE "loop", closeRaises)
    /\ UNCHANGED <<timerVars, clockVars, apVars, report, advances, scenario>>

Next ==
    \/ Iterate
    \/ AcceptTimeout
    \/ AcceptError
    \/ AcceptConn
    \/ Recv1
    \/ Body
    \/ Send
    \/ Send500

Spec == Init /\ [][Next]_vars

\* request processing with the full variety of clients, over a short time
HttpInit == InitAt(0, TRUE, "loop", Scenario(MaxHttpElapsed, Lines, SetChunks))

HttpSpec == HttpInit /\ [][Next]_vars

\* ------------------------------------------ the supervisor without clients
\* the platform reports the access point down
ApDrop ==
    /\ pc \in {"loop", "accept"}
    /\ apActive
    /\ apActive' = FALSE
    /\ UNCHANGED <<timerVars, clockVars, _last_ap_ensure, _last_ap_log, apStarts,
                   pc, connVars, advances, scenario>>

ApInit ==
    \E t0 \in StartTicks : \E active \in BOOLEAN :
        InitAt(t0, active, "loop", Scenario(MaxApElapsed, {}, {}))

ApNext == Iterate \/ AcceptTimeout \/ ApDrop

ApSpec == ApInit /\ [][ApNext]_vars

\* ----------------------------------------------- the timer functions alone
\* set_timer, stop_timer, update_timer and the off-command called directly,
\* in any order, while the clock advances between the calls
ApiSetTimer ==
    /\ pc = "api"
    /\ \E s \in SecondsInputs :
         LET t == set_timer(s, now)
         IN  /\ deadline_ms' = t.deadline_ms
             /\ running' = t.running
             /\ led' = t.led
             /\ arg' = s
             /\ setAt' = elapsed
    /\ UNCHANGED <<clockVars, apVars, pc, connVars, advances, scenario>>

ApiStopTimer ==
    /\ pc = "api"
    /\ running' = stop_timer
    /\ UNCHANGED <<deadline_ms, led, arg, setAt, clockVars, apVars, pc, connVars,
                   advances, scenario>>

ApiUpdateTimer ==
    /\ pc = "api"
    /\ LET t == update_timer(running, deadline_ms, led, now)
       IN  running' = t.running /\ led' = t.led
    /\ UNCHANGED <<deadline_ms, arg, setAt, clockVars, apVars, pc, connVars,
                   advances, scenario>>

ApiLedOff ==
    /\ pc = "api"
    /\ led' = handle_led("ledoff", led)
    /\ UNCHANGED <<deadline_ms, running, arg, setAt, clockVars, apVars, pc,
                   connVars, advances, scenario>>

ApiAdvance ==
    /\ pc = "api"
    /\ advances < MaxAdvances
    /\ \E d \in ClockSteps : Advance(d)
    /\ advances' = advances + 1
    /\ UNCHANGED <<timerVars, apVars, pc, connVars, scenario>>

TimerInit ==
    \E t0 \in StartTicks :
        InitAt(t0, TRUE, "api", Scenario(MaxAdvances * MAX_SECONDS * 1000, {}, {}))

TimerNext ==
    \/ ApiSetTimer
    \/ ApiStopTimer
    \/ ApiUpdateTimer
    \/ ApiLedOff
    \/ ApiAdvance

TimerSpec == TimerInit /\ [][TimerNext]_vars

\* ================================================================== claims
\* the completion indicator is due: the timer is running and its deadline
\* has passed, so remaining_seconds() answers 0 for a running timer
ExpiryDue == running /\ deadline_ms # None /\ ticks_diff(deadline_ms, now) <= 0

\* the step is the set_timer call of POST /set
IsSetTimerStep == pc = "body" /\ pc' = "send"

\* the step is the handling of a first chunk whose route is r
IsRouteStep(r) == pc = "recv1" /\ req' # NoLine /\ line_route(req') = r
                  /\ "handler" \notin faults'

\* C1: once a running timer's deadline has passed, the indicator becomes 1
\* (the expiry stays due until a step lights the indicator, unless set_timer
\* or /ledoff intervenes), and once 1 it stays 1 until set_timer or /ledoff,
\* whatever requests arrive around the deadline.
C1_ExpiryLightsIndicator ==
    [][ /\ (ExpiryDue /\ ~IsSetTimerStep /\ ~IsRouteStep("ledoff"))
            => (led' = 1 \/ ExpiryDue')
        /\ (led = 1 /\ led' = 0) => (IsSetTimerStep \/ IsRouteStep("ledoff"))
      ]_vars

\* C1, second half alone: an indicator that is on is turned off only by
\* set_timer or /ledoff
C1_StaysOn ==
    [][(led = 1 /\ led' = 0) => (IsSetTimerStep \/ IsRouteStep("ledoff"))]_vars

\* C2: a failure of the wireless driver during start() never propagates out
\* of the supervisor: the event loop is not terminated by it.
C2_StartFaultContained == ~(pc = "crashed" /\ "ap" \in faults)

ClientFaults == {"accept", "recv", "body", "handler", "send", "send500", "close"}

\* C3: no fault of a client interaction (accept, first read, request line,
\* body read, handler, send, 500 fallback, close) terminates the event loop:
\* with any of them raised, the loop is at a position from which it goes on.
C3_ClientFaultsContained ==
    (faults \cap ClientFaults # {}) =>
        (pc \in {"loop", "accept", "recv1", "body", "send", "send500"})

\* C3 witness: the send, the 500 fallback and the close all failed, and the
\* loop is at the top of its next iteration
C3_Witness == pc = "loop" /\ {"send", "send500", "close"} \subseteq faults

\* C4: the handling of one connection keeps the loop from its next iteration
\* for no longer than the per-client read timeout.
C4_StallBounded ==
    (connStart # None) => (elapsed - connStart <= CLIENT_TIMEOUT_MS)

\* C5: every accepted connection is closed before the next accept attempt,
\* so at most one client socket is ever open.
C5_OneSocket ==
    /\ openSockets \in {0, 1}
    /\ (pc \in {"loop", "accept"}) => (openSockets = 0)
    /\ (pc \in {"recv1", "body", "send", "send500"}) => (openSockets = 1)

\* C5 witness: a connection whose handling failed has been closed
C5_Witness == pc = "loop" /\ openSockets = 0 /\ "send" \in faults

\* C6: a connection that delivered a first chunk is closed only after a
\* response went out: the route's 200, 400 or 404, or after a fault the
\* best-effort 500, whose own failure is swallowed (then nothing went out).
C6_ResponseBeforeClose ==
    [][ (req # NoLine /\ openSockets' = openSockets - 1) =>
          IF "send500" \in faults' THEN sent' = 0
          ELSE IF {"send", "handler"} \cap faults' # {} THEN sent' = 500
          ELSE sent' \in {200, 400, 404}
      ]_vars

\* C6 witness: the route's send failed and the 500 went out instead
C6_Witness == pc = "loop" /\ sent = 500 /\ "send" \in faults

RouteTable ==
    { <<"GET", "/">>, <<"GET", "/status">>, <<"POST", "/set">>,
      <<"POST", "/stop">>, <<"POST", "/ledoff">> }

\* the status the claim assigns to a request line: 400 unless it splits
\* into exactly three pieces, then 200 for the five routes, else 404
SplitStatus(line) ==
    LET parts == split(line, " ")
    IN  IF Len(parts) # 3 THEN 400
        ELSE LET path == split1_head(parts[2], "?")
             IN  IF Len(parts[1]) = 1 /\ Len(path) = 1
                    /\ <<parts[1][1], path[1]>> \in RouteTable
                 THEN 200 ELSE 404

\* C7 as stated: the status of the response is SplitStatus of the line.
C7_StatusBySplit == (pc = "send") => (resp = SplitStatus(req))

\* C7 amended: 400 also for a first line that is not valid UTF-8; otherwise
\* the status of the response the route sends is SplitStatus of the line.
C7_StatusByLine ==
    (pc = "send") =>
        (resp = IF decode_ok(req) THEN SplitStatus(req) ELSE 400)

\* C7 witness: a line of three pieces with an undecodable byte gets the 400
C7_Witness ==
    /\ pc = "send"
    /\ req = <<"GET", " ", "/", "xFF", " ", "HTTP/1.1">>
    /\ resp = 400

\* seconds clamped into [1, 3600]
Clamped(seconds) ==
    IF seconds < 1 THEN 1 ELSE IF seconds > 3600 THEN 3600 ELSE seconds

\* C8: set_timer(seconds) followed at once by remaining_seconds() returns
\* seconds clamped into [1, 3600].
C8_SetThenRemaining ==
    (running /\ arg # None /\ setAt = elapsed) =>
        (remaining_seconds(running, deadline_ms, now) = Clamped(arg))

\* C8 witness: set_timer(9999) just before the tick counter wraps
C8_Witness ==
    /\ running /\ arg = 9999 /\ setAt = elapsed
    /\ deadline_ms < now
    /\ remaining_seconds(running, deadline_ms, now) = 3600

\* true milliseconds left before the deadline of the latest set_timer
TimeLeft == setAt + Clamped(arg) * 1000 - elapsed

\* C9: for a running timer remaining_seconds() is never negative, is the
\* ceiling of the time left (so at least 1) while time is left, is 0 once
\* the deadline has passed, and does not increase from call to call unless
\* set_timer intervenes.
C9_Remaining ==
    /\ [](running =>
            LET rem == remaining_seconds(running, deadline_ms, now)
            IN  /\ rem >= 0
                /\ (TimeLeft > 0) => (rem >= 1 /\ (rem - 1) * 1000 < TimeLeft
                                      /\ TimeLeft <= rem * 1000)
                /\ (TimeLeft <= 0) => (rem = 0))
    /\ [][(running /\ running' /\ UNCHANGED <<deadline_ms, setAt, arg>>) =>
            (remaining_seconds(running', deadline_ms', now')
               <= remaining_seconds(running, deadline_ms, now))]_vars

\* C9 witness: one millisecond is left and remaining_seconds() still says 1
C9_Witness ==
    running /\ TimeLeft = 1 /\ remaining_seconds(running, deadline_ms, now) = 1

\* C10: the indicator goes from 0 to 1 only in the per-iteration expiry
\* check, taken with the timer running and its deadline passed.
C10_OnlyExpiryLights ==
    [][(led = 0 /\ led' = 1) => (pc = "loop" /\ ExpiryDue)]_vars

\* C10 witness: the expiry check has lit the indicator
C10_Witness == pc = "accept" /\ led = 1 /\ ~running

\* the route of the request being answered
AnsweredRoute == IF pc = "send" /\ req # NoLine THEN line_route(req) ELSE "none"

\* C11: POST /ledoff forces the indicator to 0 and leaves running and the
\* deadline, hence remaining_seconds(), as they were, whether the timer is
\* idle, running or expired.
C11_LedoffFrame ==
    [][IsRouteStep("ledoff") =>
         /\ led' = 0
         /\ running' = running
         /\ deadline_ms' = deadline_ms
         /\ remaining_seconds(running', deadline_ms', now')
              = remaining_seconds(running, deadline_ms, now')
      ]_vars

\* C11 witness: /ledoff was served while the timer was running
C11_Witness == AnsweredRoute = "ledoff" /\ running /\ led = 0

\* C12: stop_timer() always leaves the timer not running and never changes
\* the indicator or the deadline; on a timer that is not running it changes
\* nothing, so a second stop_timer() adds nothing to the first.
C12_StopFrame ==
    [][IsRouteStep("stop") =>
         /\ ~running'
         /\ led' = led
         /\ deadline_ms' = deadline_ms
         /\ (~running) => UNCHANGED timerVars
      ]_vars

\* C12 witness: /stop was served on an expired timer, the indicator still on
C12_Witness == AnsweredRoute = "stop" /\ ~running /\ led = 1

\* a piece of the body is a sec field whose value int() accepts
IsSecField(p) ==
    /\ contains(p, "=")
    /\ split1_head(p, "=") = KeySec
    /\ py_int(split1_tail(p, "=")).ok

\* the body has no parsable integer sec field
NoSecField(b) ==
    \/ ~decode_ok(b)
    \/ LET ps == split(b, "&") IN \A i \in 1..Len(ps) : ~IsSecField(ps[i])

\* C13: when the body of a POST /set is shorter than its Content-Length, the
\* first read that times out, fails or returns nothing ends the body loop:
\* the timer is set from the partial body, with sec = 1 when the body has no
\* parsable sec field, and the 200 response is sent next.
C13_TruncatedSet ==
    [][(pc = "body" /\ Len(body) < content_length(hdr) /\ body' = body) =>
         /\ pc' = "send"
         /\ resp' = 200
         /\ running'
         /\ setAt' = elapsed'
         /\ NoSecField(body) => (arg' = 1)
      ]_vars

\* C13 witness: the body stopped at "sec", the read timed out, sec was 1
C13_Witness ==
    /\ pc = "send" /\ resp = 200 /\ "body" \in faults
    /\ body = <<"s", "e", "c">> /\ arg = 1 /\ running

\* C14: a connection whose first read returns no bytes is closed without a
\* response and leaves the timer, the indicator and everything the next
\* connection depends on as they were.
C14_EmptyReadSilent ==
    [][(pc = "recv1" /\ req' = NoLine /\ "recv" \notin faults') =>
         /\ pc' = "loop"
         /\ openSockets' = 0
         /\ sent' = 0
         /\ UNCHANGED <<timerVars, apVars, hdr, body, resp, report>>
      ]_vars

\* C14 witness: the empty connection is gone (its close even raised) and
\* the loop is at the top of an iteration with the timer still running
C14_Witness ==
    pc = "loop" /\ faults = {"close"} /\ sent = 0 /\ running /\ openSockets = 0

\* milliseconds since ensure_ap last took its interval branch
SinceCheck == (now - _last_ap_ensure) % TICKS_PERIOD

\* C15: ensure_ap acts only when at least the interval has passed since its
\* last check; when it acts it calls start_ap exactly when the access point
\* reports inactive; before the interval has passed it neither calls
\* start_ap nor moves the time of its last check.
C15_EnsureGated ==
    [][(pc = "loop" /\ pc' # "loop") =>
         /\ (SinceCheck < AP_ENSURE_EVERY_MS) =>
               (apStarts' = 0 /\ _last_ap_ensure' = _last_ap_ensure
                /\ apActive' = apActive)
         /\ (SinceCheck >= AP_ENSURE_EVERY_MS) =>
               (_last_ap_ensure' = now /\ (apStarts' = 1 <=> ~apActive))
      ]_vars

\* C15 witness: the interval had passed, the access point was down, start_ap
\* was called and brought it up
C15_Witness == pc = "accept" /\ apStarts = 1 /\ apActive /\ elapsed > AP_ENSURE_EVERY_MS

\* C16: a running timer always has a deadline.
C16_RunningHasDeadline == running => (deadline_ms # None)

\* C16 witness: a timer set after the clock has moved runs with a deadline
C16_Witness == running /\ deadline_ms # None /\ setAt > 0

\* the tick counter's value when the timer was last set
TickAtSet == (now - (elapsed - setAt)) % TICKS_PERIOD

\* C17: for a running timer the expiry check fires exactly when the true
\* time left is used up and remaining_seconds() is the ceiling of the true
\* time left, also when the tick counter wraps between set_timer and the
\* deadline; the longest timer is within the range where ticks_diff is exact.
C17_WrapExact ==
    /\ MAX_SECONDS * 1000 < TICKS_PERIOD \div 2
    /\ running =>
         /\ (~update_timer(running, deadline_ms, led, now).running) <=> (TimeLeft <= 0)
         /\ (update_timer(running, deadline_ms, led, now).led = 1) <=> (TimeLeft <= 0)
         /\ remaining_seconds(running, deadline_ms, now)
              = IF TimeLeft <= 0 THEN 0 ELSE (TimeLeft + 999) \div 1000

\* C17 witness: the counter has wrapped since set_timer and time is left
C17_Witness == running /\ TimeLeft > 0 /\ now < TickAtSet /\ now < deadline_ms

\* C18: a /status response that reports running = true reports a remaining
\* time of at least 1.
C18_StatusConsistent == (report # <<>> /\ report[1]) => (report[2] >= 1)

\* C19: the indicator is on only while the timer is not running.
C19_LitMeansNotRunning == (led = 1) => ~running

\* C19 witness: the timer expired, the indicator is on, a request is read
C19_Witness == led = 1 /\ ~running /\ pc = "recv1"

\* C20: while the timer is not running the indicator is never turned on,
\* however far the clock is past the old deadline; it is turned on only for
\* a running timer whose own deadline has passed.
C20_StoppedNeverFires ==
    [][/\ (~running /\ led = 0) => (led' = 0)
       /\ (led = 0 /\ led' = 1) => (running /\ TimeLeft <= 0)
      ]_vars

\* C20 witness: a stopped timer, an hour past its old deadline, indicator off
C20_Witness ==
    /\ ~running /\ led = 0 /\ deadline_ms # None
    /\ TimeLeft < 0 - MAX_SECONDS * 1000

====
